---- MODULE Spec2Model ----
(***************************************************************************)
(* Model of the Map component of the CaritasAI frontend (Map.js): the      *)
(* geocodeAddress resolver, the geocodeEvents effect that runs whenever    *)
(* the events prop changes, and the updateMapLocation effect that runs     *)
(* whenever the location prop changes; and of the page that hosts it       *)
(* (VolunteerPage.js): the chat form, whose responses give the map its      *)
(* events and location.                                                    *)
(*                                                                         *)
(* JavaScript is single threaded: the code between two awaits runs to      *)
(* completion, so every action below is one such synchronous block.  The   *)
(* suspension points are the two fetches of geocodeAddress and the         *)
(* setTimeout of the loop.  Each started geocodeEvents call is one entry   *)
(* of runs; nothing in the component ever cancels one.                     *)
(*                                                                         *)
(* Time is counted in seconds.  Latitudes and longitudes are integers in   *)
(* units of 1/10000 degree.                                                *)
(***************************************************************************)
EXTENDS Integers, Sequences, FiniteSets, TLC

\* ------------------------------------------------------------ bounds
MaxRuns == 2        \* changes of the events prop in one behaviour
MaxHints == 1       \* changes of the location prop in one behaviour
MaxTags == 3        \* skill tags of one record
MaxSubmits == 2     \* chat messages accepted in one behaviour

\* ------------------------------------------------------------ constants
Delay == 1          \* setTimeout(resolve, 1000): one second
DefaultZoom == 4
SingleZoom == 12
MultiZoom == 10
HintZoom == 11

\* ------------------------------------------------------------ numbers
\* A JavaScript number: NaN or a finite value.
Num(n) == [nan |-> FALSE, v |-> n]
NaN == [nan |-> TRUE, v |-> 0]

\* The service sends latitude and longitude as text.
NumText(n) == [numeric |-> TRUE, v |-> n]
BadText == [numeric |-> FALSE, v |-> 0]

parseFloat(t) == IF t.numeric THEN Num(t.v) ELSE NaN

\* Math.min(...xs) and Math.max(...xs) over a non-empty sequence of numbers:
\* NaN as soon as one argument is NaN.
MathMin(xs) ==
  IF \E k \in 1..Len(xs) : xs[k].nan THEN NaN
  ELSE Num(CHOOSE m \in {xs[k].v : k \in 1..Len(xs)} :
              \A k \in 1..Len(xs) : m <= xs[k].v)

MathMax(xs) ==
  IF \E k \in 1..Len(xs) : xs[k].nan THEN NaN
  ELSE Num(CHOOSE m \in {xs[k].v : k \in 1..Len(xs)} :
              \A k \in 1..Len(xs) : m >= xs[k].v)

\* (a + b) / 2.  The coordinates the lookup service returns here are all
\* even multiples of the unit, so the division is exact.
Half(a, b) == IF a.nan \/ b.nan THEN NaN ELSE Num((a.v + b.v) \div 2)

\* useState([39.8283, -98.5795]): the center of the USA
DefaultCenter == <<Num(398283), Num(-985795)>>

\* ------------------------------------------------------------ strings
\* A skill tag is a sequence of one-character strings.
UpperCase == <<"A","B","C","D","E","F","G","H","I","J","K","L","M",
               "N","O","P","Q","R","S","T","U","V","W","X","Y","Z">>
LowerCase == <<"a","b","c","d","e","f","g","h","i","j","k","l","m",
               "n","o","p","q","r","s","t","u","v","w","x","y","z">>

\* Mutant of toLowerCase: the tag is compared as it is written.
toLowerCaseSame(s) == s

toLowerCase(s) ==
  [k \in 1..Len(s) |->
     IF \E j \in 1..Len(UpperCase) : UpperCase[j] = s[k]
     THEN LowerCase[CHOOSE j \in 1..Len(UpperCase) : UpperCase[j] = s[k]]
     ELSE s[k]]

includes(s, t) ==
  \E k \in 0..(Len(s) - Len(t)) : SubSeq(s, k + 1, k + Len(t)) = t

KwFood == <<"f","o","o","d">>
KwPantry == <<"p","a","n","t","r","y">>
KwTutor == <<"t","u","t","o","r">>
KwTeach == <<"t","e","a","c","h">>
KwCommunity == <<"c","o","m","m","u","n","i","t","y">>

\* The class a single tag selects, "" when it matches no keyword.
SkillType(skill) ==
  LET lowerSkill == toLowerCase(skill) IN
  IF includes(lowerSkill, KwFood) \/ includes(lowerSkill, KwPantry)
    THEN "food pantry"
  ELSE IF includes(lowerSkill, KwTutor) \/ includes(lowerSkill, KwTeach)
    THEN "tutoring"
  ELSE IF includes(lowerSkill, KwCommunity)
    THEN "community service"
  ELSE ""

\* The loop over skills_needed: the first tag that matches any keyword
\* decides, 'default' when none does.
EventType(skills) ==
  IF \E k \in 1..Len(skills) : SkillType(skills[k]) # ""
  THEN SkillType(skills[CHOOSE k \in 1..Len(skills) :
                          /\ SkillType(skills[k]) # ""
                          /\ \A j \in 1..(k - 1) : SkillType(skills[j]) = ""])
  ELSE "default"

\* ------------------------------------------------------------ event records
\* A field the record does not carry is "" (undefined and '' are both falsy
\* for the || of the source); skills_needed is <<>> when absent.
Ev(id, pcity, pstate, paddr, city, state, addr, skills) ==
  [id |-> id, parish_city |-> pcity, parish_state |-> pstate,
   parish_address |-> paddr, city |-> city, state |-> state,
   address |-> addr, skills_needed |-> skills]

e1 == Ev(1, "Waterville", "ME", "12 Elm St", "", "", "",
         <<<<"F","o","o","d">>>>)
e2 == Ev(2, "", "", "", "Augusta", "ME", "",
         <<<<"T","u","t","o","r">>, <<"p","a","n","t","r","y">>>>)
e3 == Ev(3, "Bangor", "ME", "", "Portland", "OR", "1 Main St", <<>>)
e4 == Ev(4, "Brooklyn", "NY", "5 Oak Ave", "", "", "",
         <<<<"C","o","m","m","u","n","i","t","y">>>>)
e5 == Ev(5, "", "", "9 Pine Rd", "Albany", "", "", <<>>)

\* The values the events prop takes.
EventLists == { <<>>, <<e1, e2, e3>>, <<e5, e4>>, <<e5>> }

\* Mutant of City: the generic field is preferred (event.city ||
\* event.parish_city).
CityGenericFirst(e) == IF e.city # "" THEN e.city ELSE e.parish_city

\* const city = event.parish_city || event.city, and so on.
City(e) == IF e.parish_city # "" THEN e.parish_city ELSE e.city
State(e) == IF e.parish_state # "" THEN e.parish_state ELSE e.state
Address(e) ==
  IF e.parish_address # "" THEN e.parish_address
  ELSE IF e.address # "" THEN e.address ELSE ""

\* Mutant of Locatable: a record is skipped only when both are missing
\* (!city && !state).
LocatableEither(e) == City(e) # "" \/ State(e) # ""

\* if (!city || !state) continue
Locatable(e) == City(e) # "" /\ State(e) # ""

\* Mutant of NextLocatable: the loop ends at the first record without city
\* or state (break instead of continue).
NextLocatableBreak(evs, from) ==
  IF from <= Len(evs) /\ Locatable(evs[from]) THEN from ELSE Len(evs) + 1

\* The first record at or after position from that is not skipped,
\* Len(evs) + 1 when there is none.
NextLocatable(evs, from) ==
  IF \E k \in from..Len(evs) : Locatable(evs[k])
  THEN CHOOSE k \in from..Len(evs) :
         /\ Locatable(evs[k])
         /\ \A j \in from..(k - 1) : ~Locatable(evs[j])
  ELSE Len(evs) + 1

\* ------------------------------------------------------------ lookup service
\* The two query strings of geocodeAddress, as the list of their parts:
\* `${address}, ${city}, ${state}` and `${city}, ${state}`.
FullQuery(address, city, state) == <<address, city, state>>
CityQuery(city, state) == <<city, state>>

\* A match of the lookup service carries lat and lon as text.
Match(lat, lon) == [lat |-> lat, lon |-> lon]

\* The matches the service may give for a query: it knows each place at
\* one coordinate, a street address of Brooklyn at another one than the
\* city, and for the city of Brooklyn it also holds an entry whose latitude
\* is not numeric.
ServiceMatches(q) ==
  LET city == q[Len(q) - 1] IN
  IF city = "Waterville" THEN { Match(NumText(400000), NumText(-750000)) }
  ELSE IF city = "Augusta" THEN { Match(NumText(420000), NumText(-730000)) }
  ELSE IF city = "Bangor" THEN { Match(NumText(440000), NumText(-690000)) }
  ELSE IF city = "Brooklyn" THEN
    IF Len(q) = 3 /\ q[1] # ""
    THEN { Match(NumText(406000), NumText(-739000)) }
    ELSE { Match(NumText(406800), NumText(-739400)),
           Match(BadText, NumText(-739400)) }
  ELSE {}

\* What one fetch of query q gives: a fault (fetch rejects, or
\* response.json() throws on a malformed body), a non-success status whose
\* body is a JSON error object (fetch resolves, json() gives an object with
\* no length, so that data.length > 0 is false: its data is empty here), or
\* a list of at most one match (limit=1).
Payloads(q) ==
  { [kind |-> "fault", data |-> <<>>], [kind |-> "status", data |-> <<>>],
    [kind |-> "list", data |-> <<>>] }
  \cup { [kind |-> "list", data |-> <<m>>] : m \in ServiceMatches(q) }

\* ------------------------------------------------------------ geocodeAddress
NULL == [null |-> TRUE]

Coords(m) == [lat |-> parseFloat(m.lat), lng |-> parseFloat(m.lon)]

\* The code after the first fetch returns: the outcome is "return" with the
\* value geocodeAddress returns, or "fetch2" when the fallback query is sent.
AfterFetch1(p) ==
  IF p.kind = "fault" THEN [next |-> "return", value |-> NULL]
  ELSE IF Len(p.data) > 0 THEN [next |-> "return", value |-> Coords(p.data[1])]
  ELSE [next |-> "fetch2", value |-> NULL]

\* Mutant of AfterFetch2: the matches of the fallback fetch are not used.
AfterFetch2Unused(p) == [next |-> "return", value |-> NULL]

\* The code after the fallback fetch returns.
AfterFetch2(p) ==
  IF p.kind = "fault" THEN [next |-> "return", value |-> NULL]
  ELSE IF Len(p.data) > 0 THEN [next |-> "return", value |-> Coords(p.data[1])]
  ELSE [next |-> "return", value |-> NULL]

AfterFetch(pc, p) == IF pc = "fetch1" THEN AfterFetch1(p) ELSE AfterFetch2(p)

\* The query of the fetch that a geocodeAddress(address, city, state) call
\* at pc is awaiting.
QueryAt(pc, address, city, state) ==
  IF pc = "fetch1" THEN FullQuery(address, city, state)
  ELSE CityQuery(city, state)

\* ------------------------------------------------------------ state
VARIABLES
  events,      \* the events prop of Map
  location,    \* the location prop of Map, NULL when null
  markers,     \* useState: the annotated events the map shows
  mapCenter,   \* useState: <<lat, lng>>
  mapZoom,     \* useState
  loading,     \* useState: the busy flag
  runs,        \* the geocodeEvents calls started so far, oldest first
  hints,       \* the updateMapLocation calls started so far, oldest first
  pubRun,      \* history: the run whose setMarkers is showing, 0 for none
  viewBy,      \* history: the run whose setMapCenter and setMapZoom are
               \* showing, 0 for the initial view, -1 for a location hint
  sinceAny,    \* history: seconds since a resolver call of any run returned,
               \* counted up to Delay
  call,        \* one geocodeAddress call on its own, with the lookups it made
  cls,         \* one classification on its own: the tags and the eventType
  chat         \* the state of VolunteerPage and its chat requests in flight

mapVars == <<events, location, markers, mapCenter, mapZoom, loading, runs,
             hints, pubRun, viewBy, sinceAny>>

vars == <<mapVars, call, cls, chat>>

\* A run is the closure of one geocodeEvents call:
\*   events  the list it was started on
\*   i       the position of the loop, Len(events) + 1 after the loop
\*   pc      "fetch1" | "fetch2": awaiting that fetch of geocodeAddress,
\*           "delay": awaiting the setTimeout, "done": returned
\*   acc     geocodedMarkers
\*   timer   seconds left before the setTimeout may fire
\*   res     history, per record: "none" not reached, "skip" skipped,
\*           "pend" resolver call in flight, "ok" resolved, "nf" null
\*   since   history: seconds since the last resolver call of this run
\*           returned, counted up to Delay; Delay when none has returned
\*   waited  history: the setTimeouts of this run that have fired

\* The values the location prop takes.
Locations == { [city |-> "Brooklyn", state |-> "NY"],
               [city |-> "", state |-> "NY"] }

\* {...event, coordinates: coords, eventType}
Annotated(e, coords) ==
  [coordinates |-> coords, eventType |-> EventType(e.skills_needed)] @@ e

\* Mutant of Push: the item is put at the front (unshift).
PushFront(acc, item) == <<item>> \o acc

\* geocodedMarkers.push(item)
Push(acc, item) == Append(acc, item)

\* Mutant of Accumulate: the record is pushed without the if (coords) test.
AccumulateAlways(acc, e, coords) ==
  Push(acc, [coordinates |-> coords, eventType |-> "default"] @@ e)

\* if (coords) { ... geocodedMarkers.push({...}) } else { console.error }
Accumulate(acc, e, coords) ==
  IF coords # NULL THEN Push(acc, Annotated(e, coords)) ELSE acc

Lats(ms) == [k \in 1..Len(ms) |-> ms[k].coordinates.lat]
Lngs(ms) == [k \in 1..Len(ms) |-> ms[k].coordinates.lng]

\* The sum of a sequence of finite numbers.
RECURSIVE SumOf(_)
SumOf(xs) == IF Len(xs) = 0 THEN 0 ELSE xs[1].v + SumOf(Tail(xs))

\* Mutant of CenterOf: the average of the coordinates, not the midpoint of
\* their bounding box.
CenterAverage(ms) ==
  << IF \E k \in 1..Len(ms) : Lats(ms)[k].nan THEN NaN
     ELSE Num(SumOf(Lats(ms)) \div Len(ms)),
     IF \E k \in 1..Len(ms) : Lngs(ms)[k].nan THEN NaN
     ELSE Num(SumOf(Lngs(ms)) \div Len(ms)) >>

\* The center and zoom of the auto-zoom block, for a non-empty list.
CenterOf(ms) == << Half(MathMin(Lats(ms)), MathMax(Lats(ms))),
                   Half(MathMin(Lngs(ms)), MathMax(Lngs(ms))) >>
ZoomOf(ms) == IF Len(ms) = 1 THEN SingleZoom ELSE MultiZoom

\* Mutant of Enter: the resolver is called for every remaining record at
\* once, as events.map(async ...) would.
EnterParallel(run, from) ==
  LET k == NextLocatable(run.events, from)
      all == [j \in 1..Len(run.events) |->
                IF j < from THEN run.res[j]
                ELSE IF Locatable(run.events[j]) THEN "pend" ELSE "skip"]
  IN [run EXCEPT !.i = k,
                 !.pc = IF k <= Len(run.events) THEN "fetch1" ELSE "done",
                 !.res = all]

\* The loop of run goes on at position from: the records without city or
\* state are skipped, and either the resolver is called for the next
\* record (its first fetch is sent) or the loop is over.
Enter(run, from) ==
  LET k == NextLocatable(run.events, from)
      skipped == [j \in 1..Len(run.events) |->
                    IF j >= from /\ j < k THEN "skip" ELSE run.res[j]]
  IN IF k <= Len(run.events)
     THEN [run EXCEPT !.i = k, !.pc = "fetch1",
                      !.res = [skipped EXCEPT ![k] = "pend"]]
     ELSE [run EXCEPT !.i = k, !.pc = "done", !.res = skipped]

\* Mutant of Publish: the busy flag is not cleared after the loop.
PublishBusy(r, run) ==
  /\ markers' = run.acc
  /\ loading' = loading
  /\ pubRun' = r
  /\ IF Len(run.acc) > 0
     THEN /\ mapCenter' = CenterOf(run.acc)
          /\ mapZoom' = ZoomOf(run.acc)
          /\ viewBy' = r
     ELSE UNCHANGED <<mapCenter, mapZoom, viewBy>>

\* The code after the loop: setMarkers, setLoading(false) and, when there
\* is a marker, setMapCenter and setMapZoom, in one synchronous block.
Publish(r, run) ==
  /\ markers' = run.acc
  /\ loading' = FALSE
  /\ pubRun' = r
  /\ IF Len(run.acc) > 0
     THEN /\ mapCenter' = CenterOf(run.acc)
          /\ mapZoom' = ZoomOf(run.acc)
          /\ viewBy' = r
     ELSE UNCHANGED <<mapCenter, mapZoom, viewBy>>

NewRun(evs) ==
  [events |-> evs, i |-> 1, pc |-> "done", acc |-> <<>>, timer |-> 0,
   res |-> [j \in 1..Len(evs) |-> "none"], since |-> Delay, waited |-> 0]

\* geocodeAddress(address, city, state) called on its own:
\*   pc      "idle": not called, "fetch1" | "fetch2": awaiting that fetch,
\*           "done": returned result
\*   log     the lookups made so far: the query sent and what came back
\*   result  the value returned, NULL for null
\*   again   history: the call has the arguments of the call before it
IdleCall ==
  [pc |-> "idle", address |-> "", city |-> "", state |-> "", log |-> <<>>,
   result |-> NULL, again |-> FALSE]

\* The eventType loop on its own: the tags given and the class computed.
Tags ==
  { <<"F","o","o","d">>, <<"p","a","n","t","r","y">>, <<"T","u","t","o","r">>,
    <<"T","E","A","C","H">>, <<"C","o","m","m","u","n","i","t","y">>,
    <<"D","r","i","v","e">>, <<"s","e","a","f","o","o","d">> }

SkillLists == UNION { [1..n -> Tags] : n \in 0..MaxTags }

NoTags == [skills |-> <<>>, eventType |-> EventType(<<>>)]

\* The loop is run once, on any list of tags.
Classify(skills) ==
  /\ cls = NoTags
  /\ cls' = [skills |-> skills, eventType |-> EventType(skills)]
  /\ UNCHANGED <<mapVars, call, chat>>

\* ------------------------------------------------------------ VolunteerPage
\* A text is a sequence of one-character strings.  String.prototype.trim:
RECURSIVE trimStart(_)
trimStart(s) ==
  IF Len(s) > 0 /\ s[1] = " " THEN trimStart(Tail(s)) ELSE s

RECURSIVE trimEnd(_)
trimEnd(s) ==
  IF Len(s) > 0 /\ s[Len(s)] = " " THEN trimEnd(SubSeq(s, 1, Len(s) - 1)) ELSE s

trim(s) == trimEnd(trimStart(s))

\* What the input field may hold: typed text, a quick prompt, or the text
\* handleEventClick fills in (it ends with a space).
Inputs ==
  { <<>>, <<" ">>, <<"h","i">>, <<" ","h","i"," ">>, <<"r","e","g"," ">> }

\* The contents of the assistant messages: the greeting, response.data.response
\* and the text of the catch block.
Greeting == <<"H","e","l","l","o">>
Reply == <<"o","k">>
ErrorText == <<"S","o","r","r","y">>

Message(role, content) == [role |-> role, content |-> content]

\* What axios.post('/api/chat') gives: a rejection (network error or
\* non-2xx status), a response without a body (response.data is null), or a
\* body whose events field is absent, null or a list and whose location
\* field is absent, null or an object.
ChatEventLists == { <<e4>>, <<e5, e4>> }

EventsFields ==
  { [has |-> "absent"], [has |-> "null"], [has |-> "list", list |-> <<>>] }
  \cup { [has |-> "list", list |-> l] : l \in ChatEventLists }

LocationFields ==
  { [has |-> "absent"], [has |-> "null"] }
  \cup { [has |-> "value", value |-> loc] : loc \in Locations }

Responses ==
  { [kind |-> "reject"], [kind |-> "nodata"] }
  \cup { [kind |-> "ok", events |-> ef, location |-> lf] :
           ef \in EventsFields, lf \in LocationFields }

\* useState of VolunteerPage, and:
\*   pending  the messages posted to /api/chat that have not returned
\*   sent     history: the submits that were accepted
NewChat ==
  [messages |-> <<Message("assistant", Greeting)>>, input |-> <<>>,
   loading |-> FALSE, events |-> <<>>, location |-> NULL, pending |-> <<>>,
   sent |-> 0]

\* onChange of the input field, a quick prompt, or handleEventClick.
SetInput(text) ==
  /\ chat' = [chat EXCEPT !.input = text]
  /\ UNCHANGED <<mapVars, call, cls>>

\* Mutant of sendMessage: the loading test of the guard is left out.
sendMessageWhileLoading ==
  /\ IF Len(trim(chat.input)) = 0
     THEN UNCHANGED chat
     ELSE /\ chat.sent < MaxSubmits
          /\ LET userMessage == trim(chat.input) IN
             chat' = [chat EXCEPT
                        !.input = <<>>,
                        !.messages = Append(@, Message("user", userMessage)),
                        !.loading = TRUE,
                        !.pending = Append(@, userMessage),
                        !.sent = @ + 1]
  /\ UNCHANGED <<mapVars, call, cls>>

\* sendMessage up to its await: nothing when the input is blank or a
\* request is loading, else the user message is appended and posted.
sendMessage ==
  /\ IF Len(trim(chat.input)) = 0 \/ chat.loading
     THEN UNCHANGED chat
     ELSE /\ chat.sent < MaxSubmits
          /\ LET userMessage == trim(chat.input) IN
             chat' = [chat EXCEPT
                        !.input = <<>>,
                        !.messages = Append(@, Message("user", userMessage)),
                        !.loading = TRUE,
                        !.pending = Append(@, userMessage),
                        !.sent = @ + 1]
  /\ UNCHANGED <<mapVars, call, cls>>

\* Mutant of EventsAfter: the events are cleared when the field is absent.
EventsAfterAlways(ef, evs) ==
  IF ef.has = "list" /\ Len(ef.list) > 0 THEN ef.list ELSE <<>>

\* if (response.data.events !== undefined) { if (events && events.length > 0)
\* setEvents(events) else setEvents([]) }
EventsAfter(ef, evs) ==
  IF ef.has = "absent" THEN evs
  ELSE IF ef.has = "list" /\ Len(ef.list) > 0 THEN ef.list
  ELSE <<>>

\* if (response.data.location) setLocation(response.data.location)
LocationAfter(lf, loc) == IF lf.has = "value" THEN lf.value ELSE loc

\* The request without index k.
Without(pending, k) ==
  SubSeq(pending, 1, k - 1) \o SubSeq(pending, k + 1, Len(pending))

\* Mutant of PostReturn: setLoading(false) is at the end of the try block,
\* not in a finally.
PostReturnNoFinally(k, resp) ==
  /\ k \in 1..Len(chat.pending)
  /\ IF resp.kind = "ok"
     THEN chat' = [chat EXCEPT
                     !.messages = Append(@, Message("assistant", Reply)),
                     !.events = EventsAfter(resp.events, @),
                     !.location = LocationAfter(resp.location, @),
                     !.loading = FALSE,
                     !.pending = Without(@, k)]
     ELSE chat' = [chat EXCEPT
                     !.messages = Append(@, Message("assistant", ErrorText)),
                     !.pending = Without(@, k)]
  /\ UNCHANGED <<mapVars, call, cls>>

\* The request k returns resp: the rest of sendMessage, its try, catch and
\* finally blocks.
PostReturn(k, resp) ==
  /\ k \in 1..Len(chat.pending)
  /\ IF resp.kind = "ok"
     THEN chat' = [chat EXCEPT
                     !.messages = Append(@, Message("assistant", Reply)),
                     !.events = EventsAfter(resp.events, @),
                     !.location = LocationAfter(resp.location, @),
                     !.loading = FALSE,
                     !.pending = Without(@, k)]
     ELSE chat' = [chat EXCEPT
                     !.messages = Append(@, Message("assistant", ErrorText)),
                     !.loading = FALSE,
                     !.pending = Without(@, k)]
  /\ UNCHANGED <<mapVars, call, cls>>

Init ==
  /\ events = <<>>
  /\ location = NULL
  /\ markers = <<>>
  /\ mapCenter = DefaultCenter
  /\ mapZoom = DefaultZoom
  /\ loading = FALSE
  /\ runs = <<>>
  /\ hints = <<>>
  /\ pubRun = 0
  /\ viewBy = 0
  /\ sinceAny = Delay
  /\ call = IdleCall
  /\ cls = NoTags
  /\ chat = NewChat

\* The parent renders Map with a new events prop: the effect calls
\* geocodeEvents, which runs up to its first await (or to its end).
SetEvents(evs) ==
  /\ Len(runs) < MaxRuns
  /\ events' = evs
  /\ LET r == Len(runs) + 1 IN
     IF Len(evs) = 0
     THEN /\ markers' = <<>>
          /\ pubRun' = r
          /\ runs' = Append(runs, NewRun(evs))
          /\ UNCHANGED <<loading, mapCenter, mapZoom, viewBy>>
     ELSE LET run == Enter(NewRun(evs), 1) IN
          /\ runs' = Append(runs, run)
          /\ IF run.pc = "done"
             THEN Publish(r, run)
             ELSE /\ loading' = TRUE
                  /\ UNCHANGED <<markers, mapCenter, mapZoom, pubRun, viewBy>>
  /\ UNCHANGED <<location, hints, sinceAny, call, cls,
                 chat>>

\* The query run is awaiting: geocodeAddress(address, city, state) of the
\* record at its position.
RunQuery(run) ==
  LET e == run.events[run.i] IN
  QueryAt(run.pc, Address(e), City(e), State(e))

\* A fetch of run r returns p.  Either geocodeAddress sends its fallback
\* fetch, or it returns and the loop body goes on to the setTimeout.
FetchReturn(r, p) ==
  /\ r \in 1..Len(runs)
  /\ runs[r].pc \in {"fetch1", "fetch2"}
  /\ p \in Payloads(RunQuery(runs[r]))
  /\ LET run == runs[r]
         out == AfterFetch(run.pc, p)
     IN IF out.next = "fetch2"
        THEN /\ runs' = [runs EXCEPT ![r].pc = "fetch2"]
             /\ UNCHANGED sinceAny
        ELSE /\ runs' = [runs EXCEPT ![r] =
                  [run EXCEPT
                     !.acc = Accumulate(run.acc, run.events[run.i], out.value),
                     !.res = [run.res EXCEPT
                                ![run.i] = IF out.value # NULL THEN "ok" ELSE "nf"],
                     !.pc = "delay",
                     !.timer = Delay,
                     !.since = 0]]
             /\ sinceAny' = 0
  /\ UNCHANGED <<events, location, markers, mapCenter, mapZoom, loading, hints,
                 pubRun, viewBy, call, cls,
                 chat>>

\* Mutant of DelayDone: the promise of the setTimeout is not awaited, the
\* loop goes on before the second is over.
DelayDoneNoWait(r) ==
  /\ r \in 1..Len(runs)
  /\ runs[r].pc = "delay"
  /\ LET run == Enter([runs[r] EXCEPT !.waited = @ + 1], runs[r].i + 1) IN
     /\ runs' = [runs EXCEPT ![r] = run]
     /\ IF run.pc = "done"
        THEN Publish(r, run)
        ELSE UNCHANGED <<markers, mapCenter, mapZoom, loading, pubRun, viewBy>>
  /\ UNCHANGED <<events, location, hints, sinceAny, call, cls,
                 chat>>

\* The setTimeout of run r fires: the loop goes on with the next record,
\* or ends and the run publishes.
DelayDone(r) ==
  /\ r \in 1..Len(runs)
  /\ runs[r].pc = "delay"
  /\ runs[r].timer = 0
  /\ LET run == Enter([runs[r] EXCEPT !.waited = @ + 1], runs[r].i + 1) IN
     /\ runs' = [runs EXCEPT ![r] = run]
     /\ IF run.pc = "done"
        THEN Publish(r, run)
        ELSE UNCHANGED <<markers, mapCenter, mapZoom, loading, pubRun, viewBy>>
  /\ UNCHANGED <<events, location, hints, sinceAny, call, cls,
                 chat>>

\* One second passes.
Tick ==
  /\ runs' = [r \in 1..Len(runs) |->
                [runs[r] EXCEPT
                   !.timer = IF @ > 0 THEN @ - 1 ELSE 0,
                   !.since = IF @ < Delay THEN @ + 1 ELSE Delay]]
  /\ sinceAny' = IF sinceAny < Delay THEN sinceAny + 1 ELSE Delay
  /\ UNCHANGED <<events, location, markers, mapCenter, mapZoom, loading, hints,
                 pubRun, viewBy, call, cls,
                 chat>>

\* The parent renders Map with a new location prop: the effect calls
\* updateMapLocation, which calls geocodeAddress('', city, state || '')
\* when the hint has a city.
SetLocation(loc) ==
  /\ Len(hints) < MaxHints
  /\ location' = loc
  /\ hints' = Append(hints,
       [location |-> loc,
        pc |-> IF loc # NULL /\ loc.city # "" THEN "fetch1" ELSE "done"])
  /\ UNCHANGED <<events, markers, mapCenter, mapZoom, loading, runs, pubRun,
                 viewBy, sinceAny, call, cls,
                 chat>>

\* The query hint is awaiting:
\* geocodeAddress('', location.city, location.state || '').
HintQuery(hint) ==
  QueryAt(hint.pc, "", hint.location.city, hint.location.state)

\* Mutant of HintFetchReturn: the recentring also clears the busy flag.
HintFetchReturnBusy(h, p) ==
  /\ h \in 1..Len(hints)
  /\ hints[h].pc \in {"fetch1", "fetch2"}
  /\ p \in Payloads(HintQuery(hints[h]))
  /\ LET out == AfterFetch(hints[h].pc, p) IN
     IF out.next = "fetch2"
     THEN /\ hints' = [hints EXCEPT ![h].pc = "fetch2"]
          /\ UNCHANGED <<mapCenter, mapZoom, viewBy, loading>>
     ELSE /\ hints' = [hints EXCEPT ![h].pc = "done"]
          /\ loading' = FALSE
          /\ IF out.value # NULL
             THEN /\ mapCenter' = <<out.value.lat, out.value.lng>>
                  /\ mapZoom' = HintZoom
                  /\ viewBy' = -1
             ELSE UNCHANGED <<mapCenter, mapZoom, viewBy>>
  /\ UNCHANGED <<events, location, markers, runs, pubRun, sinceAny, call, cls,
                 chat>>

\* A fetch of hint h returns p.
HintFetchReturn(h, p) ==
  /\ h \in 1..Len(hints)
  /\ hints[h].pc \in {"fetch1", "fetch2"}
  /\ p \in Payloads(HintQuery(hints[h]))
  /\ LET out == AfterFetch(hints[h].pc, p) IN
     IF out.next = "fetch2"
     THEN /\ hints' = [hints EXCEPT ![h].pc = "fetch2"]
          /\ UNCHANGED <<mapCenter, mapZoom, viewBy>>
     ELSE /\ hints' = [hints EXCEPT ![h].pc = "done"]
          /\ IF out.value # NULL
             THEN /\ mapCenter' = <<out.value.lat, out.value.lng>>
                  /\ mapZoom' = HintZoom
                  /\ viewBy' = -1
             ELSE UNCHANGED <<mapCenter, mapZoom, viewBy>>
  /\ UNCHANGED <<events, location, markers, loading, runs, pubRun, sinceAny,
                 call, cls,
                 chat>>

\* The arguments geocodeAddress is called with on its own.
Addresses == {"", "5 Oak Ave"}
Cities == {"Brooklyn", "Augusta", "Nowhere"}
States == {"NY", ""}

\* The call has returned and its arguments were these.
CalledWith(address, city, state) ==
  /\ call.pc = "done"
  /\ <<call.address, call.city, call.state>> = <<address, city, state>>

\* Mutant of ResolveCall: the result of the call before is kept and
\* returned when the arguments are the same, without a fetch.
ResolveCallCached(address, city, state) ==
  /\ call.pc \in {"idle", "done"}
  /\ call' = IF CalledWith(address, city, state)
             THEN [call EXCEPT !.log = <<>>, !.again = TRUE]
             ELSE [pc |-> "fetch1", address |-> address, city |-> city,
                   state |-> state, log |-> <<>>, result |-> NULL,
                   again |-> FALSE]
  /\ UNCHANGED <<mapVars, cls, chat>>

\* geocodeAddress(address, city, state) is called and sends its first fetch.
ResolveCall(address, city, state) ==
  /\ call.pc \in {"idle", "done"}
  /\ call' = [pc |-> "fetch1", address |-> address, city |-> city,
              state |-> state, log |-> <<>>, result |-> NULL,
              again |-> CalledWith(address, city, state)]
  /\ UNCHANGED <<mapVars, cls, chat>>

\* The fetch the call is awaiting returns p: the call sends its fallback
\* fetch or returns.
ResolveFetchReturn(p) ==
  /\ call.pc \in {"fetch1", "fetch2"}
  /\ LET q == QueryAt(call.pc, call.address, call.city, call.state)
         out == AfterFetch(call.pc, p)
     IN /\ p \in Payloads(q)
        /\ call' = [call EXCEPT
                      !.log = Append(@, [query |-> q, payload |-> p]),
                      !.pc = IF out.next = "fetch2" THEN "fetch2" ELSE "done",
                      !.result = out.value]
  /\ UNCHANGED <<mapVars, cls, chat>>

AllPayloads ==
  UNION { Payloads(CityQuery(c, "")) :
            c \in {"Waterville", "Augusta", "Bangor", "Brooklyn"} }
  \cup Payloads(FullQuery("x", "Brooklyn", ""))

\* The steps of the event-list runs.
NextRuns ==
  \/ \E evs \in EventLists : SetEvents(evs)
  \/ \E r \in 1..MaxRuns, p \in AllPayloads : FetchReturn(r, p)
  \/ \E r \in 1..MaxRuns : DelayDone(r)
  \/ Tick

\* The steps of the location hints.
NextHints ==
  \/ \E loc \in Locations : SetLocation(loc)
  \/ \E h \in 1..MaxHints, p \in AllPayloads : HintFetchReturn(h, p)

Next == NextRuns \/ NextHints

Spec == Init /\ [][Next]_vars

\* The component when its location prop never changes: the hint steps
\* leave runs, markers, loading and pubRun as they are, so what the runs
\* do to these is the same with and without them.
SpecRuns == Init /\ [][NextRuns]_vars

\* geocodeAddress on its own, for every argument and every answer of the
\* lookup service.
NextResolve ==
  \/ \E a \in Addresses, c \in Cities, st \in States : ResolveCall(a, c, st)
  \/ \E p \in AllPayloads : ResolveFetchReturn(p)

SpecResolve == Init /\ [][NextResolve]_vars

\* The component with both props changing, the events prop between the
\* empty list and a list of a record that is skipped and one that is
\* resolved.
RaceLists == { <<>>, <<e5, e4>> }

NextRace ==
  \/ \E evs \in RaceLists : SetEvents(evs)
  \/ \E r \in 1..MaxRuns, p \in AllPayloads : FetchReturn(r, p)
  \/ \E r \in 1..MaxRuns : DelayDone(r)
  \/ Tick
  \/ NextHints

SpecRace == Init /\ [][NextRace]_vars

\* The eventType loop on its own, for every list of tags.
NextClassify == \E skills \in SkillLists : Classify(skills)

SpecClassify == Init /\ [][NextClassify]_vars

\* VolunteerPage: the input field, the submits and the chat requests.
NextChat ==
  \/ \E text \in Inputs : SetInput(text)
  \/ sendMessage
  \/ \E k \in 1..MaxSubmits, resp \in Responses : PostReturn(k, resp)

SpecChat == Init /\ [][NextChat]_vars

\* ------------------------------------------------------------ properties
\* The records of run for which the resolver has been called.
Issued(run) ==
  {k \in 1..Len(run.events) : run.res[k] \in {"pend", "ok", "nf"}}

\* Run r has a resolver call in flight in the list rs of runs.
InFlight(rs, r) == r \in 1..Len(rs) /\ rs[r].pc \in {"fetch1", "fetch2"}

\* This step starts a resolver call of run r.
CallStart(r) ==
  /\ r \in 1..Len(runs')
  /\ \E k \in Issued(runs'[r]) : r > Len(runs) \/ k \notin Issued(runs[r])

\* This step is the one in which run r leaves geocodeEvents.
Completes(r) ==
  /\ r \in 1..Len(runs')
  /\ runs'[r].pc = "done"
  /\ r > Len(runs) \/ runs[r].pc # "done"

\* C1: once a newer run has started, a step in which an older run completes
\* leaves the published list and the viewport as they are.
C1_SupersededRunPublishesNothing ==
  [][\A r \in 1..Len(runs) :
       (r < Len(runs) /\ Completes(r)) =>
          UNCHANGED <<markers, mapCenter, mapZoom>>]_vars

\* C2: once a newer run has started, the older run starts no further
\* resolver call.
C2_SupersededRunCallsNothing ==
  [][\A r \in 1..Len(runs) : r < Len(runs) => ~CallStart(r)]_vars

\* C3: within one run the resolver is called for one record at a time and
\* in input order: when it has been called for record k, every earlier
\* record was skipped or its call has returned.
C3_OneCallAtATimeInOrder ==
  \A r \in 1..Len(runs) :
    /\ Cardinality({k \in 1..Len(runs[r].events) : runs[r].res[k] = "pend"}) <= 1
    /\ \A k \in Issued(runs[r]) :
         \A j \in 1..(k - 1) : runs[r].res[j] \in {"skip", "ok", "nf"}

\* C3 witness: the third record's call is in flight after the calls for the
\* first two returned.
C3_Witness ==
  \E r \in 1..Len(runs) :
    /\ Len(runs[r].events) = 3
    /\ runs[r].res[1] \in {"ok", "nf"}
    /\ runs[r].res[2] \in {"ok", "nf"}
    /\ runs[r].res[3] = "pend"

\* C4: within one run a resolver call starts only when a full delay has
\* passed since the run's previous call returned, whatever that call
\* returned; so a run that has called the resolver N times has waited out
\* at least N - 1 delays.
C4_DelayBetweenCalls ==
  /\ [][\A r \in 1..Len(runs) : CallStart(r) => runs[r].since >= Delay]_vars
  /\ [](\A r \in 1..Len(runs) :
          runs[r].waited >= Cardinality(Issued(runs[r])) - 1)

\* C4 witness: the second call of a run is in flight after the first one
\* returned null.
C4_Witness ==
  \E r \in 1..Len(runs) :
    /\ Len(runs[r].events) = 3
    /\ runs[r].res[1] = "nf"
    /\ runs[r].res[2] = "pend"
    /\ runs[r].waited = 1

\* C5: no run waits for the delay after the call for its last record has
\* returned.
C5_NoDelayAfterLastRecord ==
  \A r \in 1..Len(runs) :
    runs[r].pc = "delay" => runs[r].i < Len(runs[r].events)

\* C6: over all runs, a resolver call starts only when no other run has a
\* call in flight and a full delay has passed since the last call of any
\* run returned.
C6_RateLimitAcrossRuns ==
  [][\A r \in 1..Len(runs') :
       CallStart(r) =>
         /\ sinceAny >= Delay
         /\ \A q \in 1..Len(runs) : q # r => ~InFlight(runs, q)]_vars

\* C7: the published list and the viewport are replaced together: a
\* viewport set by a run is shown with that run's list, never with the list
\* of another run.
C7_ListAndViewportOfOneRun ==
  viewBy > 0 => viewBy = pubRun

\* C8: the busy flag is true while the most recently started run over a
\* non-empty list has not completed, and false once it has.
C8_BusyWhileNewestRunActive ==
  LET nonEmpty == {r \in 1..Len(runs) : Len(runs[r].events) > 0} IN
  nonEmpty # {} =>
    LET newest == CHOOSE r \in nonEmpty : \A q \in nonEmpty : q <= r IN
    loading = (runs[newest].pc # "done")

\* ms holds records of evs in the order of evs.
InOrderOf(ms, evs) ==
  \E f \in [1..Len(ms) -> 1..Len(evs)] :
    /\ \A k \in 1..Len(ms) : ms[k].id = evs[f[k]].id
    /\ \A k, l \in 1..Len(ms) : k < l => f[k] < f[l]

\* C9: the list a run has published holds records of its input in input
\* order, and when every record of the input resolved it is the input,
\* record by record.
C9_PublishedInInputOrder ==
  pubRun > 0 =>
    LET run == runs[pubRun] IN
    /\ InOrderOf(markers, run.events)
    /\ (\A k \in 1..Len(run.events) : run.res[k] = "ok") =>
         /\ Len(markers) = Len(run.events)
         /\ \A k \in 1..Len(markers) : markers[k].id = run.events[k].id

\* C9 witness: a run has published all three records of its input.
C9_Witness ==
  /\ pubRun > 0
  /\ Len(runs[pubRun].events) = 3
  /\ Len(markers) = 3

\* No record of run for which the resolver returned null is in ms.
NoNotFound(ms, run) ==
  \A k \in 1..Len(run.events) :
    run.res[k] = "nf" => \A m \in 1..Len(ms) : ms[m].id # run.events[k].id

\* C10: a record for which the resolver returned null is in no run's
\* accumulator and so never in the published list, and neither is longer
\* than the input.
C10_NotFoundDropped ==
  /\ \A r \in 1..Len(runs) :
       /\ NoNotFound(runs[r].acc, runs[r])
       /\ Len(runs[r].acc) <= Len(runs[r].events)
  /\ pubRun > 0 =>
       /\ NoNotFound(markers, runs[pubRun])
       /\ Len(markers) <= Len(runs[pubRun].events)

\* C10 witness: a run has published a list that lacks a record for which
\* the resolver returned null and holds another one.
C10_Witness ==
  /\ pubRun > 0
  /\ \E k \in 1..Len(runs[pubRun].events) : runs[pubRun].res[k] = "nf"
  /\ Len(markers) > 0

\* C11: the list of a run over an empty input is shown empty, with the
\* default viewport, and the run has called the resolver for no record.
C11_EmptyRunShowsDefaultView ==
  (pubRun > 0 /\ Len(runs[pubRun].events) = 0) =>
    /\ markers = <<>>
    /\ Issued(runs[pubRun]) = {}
    /\ mapCenter = DefaultCenter
    /\ mapZoom = DefaultZoom

\* C12: the list of a run over a non-empty input of which no record
\* resolved is shown with the default viewport.
C12_NothingResolvedShowsDefaultView ==
  (pubRun > 0 /\ Len(runs[pubRun].events) > 0 /\ Len(markers) = 0) =>
    /\ mapCenter = DefaultCenter
    /\ mapZoom = DefaultZoom

\* Every coordinate of ms is finite.
AllFinite(ms) ==
  \A k \in 1..Len(ms) :
    ~ms[k].coordinates.lat.nan /\ ~ms[k].coordinates.lng.nan

\* c is the midpoint of the smallest and the largest of the finite numbers xs.
IsMidpoint(c, xs) ==
  /\ ~c.nan
  /\ \E lo, hi \in 1..Len(xs) :
       /\ \A k \in 1..Len(xs) : xs[lo].v <= xs[k].v /\ xs[k].v <= xs[hi].v
       /\ 2 * c.v = xs[lo].v + xs[hi].v

\* The coordinates of ms, in order, as pairs of 1/10000 degrees.
Points(ms) ==
  [k \in 1..Len(ms) |-> <<ms[k].coordinates.lat.v, ms[k].coordinates.lng.v>>]

\* C13: a published list with at least one event, all of finite
\* coordinates, is shown centered on the midpoint of the bounding box of its
\* coordinates, at zoom 12 for one event and 10 for more; (40,-75) alone
\* gives (40,-75) at 12, (40,-75) with (42,-73) gives (41,-74) at 10.
C13_ViewportIsBoxMidpoint ==
  (Len(markers) > 0 /\ AllFinite(markers)) =>
    /\ IsMidpoint(mapCenter[1], Lats(markers))
    /\ IsMidpoint(mapCenter[2], Lngs(markers))
    /\ mapZoom = IF Len(markers) = 1 THEN 12 ELSE 10
    /\ Points(markers) = << <<400000, -750000>> >> =>
         mapCenter = <<Num(400000), Num(-750000)>> /\ mapZoom = 12
    /\ Points(markers) = << <<400000, -750000>>, <<420000, -730000>> >> =>
         mapCenter = <<Num(410000), Num(-740000)>> /\ mapZoom = 10

\* C13 witness: the two events of the example are shown, centered on
\* (41,-74) at zoom 10.
C13_Witness ==
  /\ Points(markers) = << <<400000, -750000>>, <<420000, -730000>> >>
  /\ mapCenter = <<Num(410000), Num(-740000)>>
  /\ mapZoom = 10

\* Some tag of skills contains a food keyword.
HasFoodTag(skills) ==
  \E k \in 1..Len(skills) :
    \/ includes(toLowerCase(skills[k]), KwFood)
    \/ includes(toLowerCase(skills[k]), KwPantry)

\* C14: an annotated event of which some tag contains a food keyword is
\* classified as food pantry, whatever the order of its tags.
C14_FoodBeforeTutoring ==
  /\ \A k \in 1..Len(markers) :
       HasFoodTag(markers[k].skills_needed) =>
         markers[k].eventType = "food pantry"
  /\ \A r \in 1..Len(runs) : \A k \in 1..Len(runs[r].acc) :
       HasFoodTag(runs[r].acc[k].skills_needed) =>
         runs[r].acc[k].eventType = "food pantry"

\* The geocodeAddress call has returned after two lookups, of which the
\* first gave a list of no match and the second a list with a match of
\* numeric latitude and longitude.
FallbackMatched ==
  /\ call.pc = "done"
  /\ Len(call.log) = 2
  /\ call.log[1].payload = [kind |-> "list", data |-> <<>>]
  /\ call.log[2].payload.kind = "list"
  /\ Len(call.log[2].payload.data) > 0
  /\ call.log[2].payload.data[1].lat.numeric
  /\ call.log[2].payload.data[1].lon.numeric

\* C15: when the full-address lookup gives no match and the city and state
\* lookup gives one, geocodeAddress returns the coordinate of the first
\* match of the city and state lookup.
C15_FallbackCoordinateReturned ==
  FallbackMatched =>
    /\ call.log[1].query = <<call.address, call.city, call.state>>
    /\ call.log[2].query = <<call.city, call.state>>
    /\ call.result # NULL
    /\ call.result.lat = Num(call.log[2].payload.data[1].lat.v)
    /\ call.result.lng = Num(call.log[2].payload.data[1].lon.v)

\* C15 witness: the street address of Brooklyn found no match, the city
\* did, and the call returned the coordinate of the city.
C15_Witness ==
  /\ FallbackMatched
  /\ call.address = "5 Oak Ave"
  /\ call.result = [lat |-> Num(406800), lng |-> Num(-739400)]

\* A lookup of the call failed at transport level.
TransportFailed ==
  \E k \in 1..Len(call.log) : call.log[k].payload.kind \in {"fault", "status"}

\* C16: geocodeAddress returns null when both lookups give no match or
\* when one of its lookups fails at transport level.
C16_NullOnFailure ==
  (/\ call.pc = "done"
   /\ \/ TransportFailed
      \/ /\ Len(call.log) = 2
         /\ \A k \in 1..2 : Len(call.log[k].payload.data) = 0) =>
    call.result = NULL

\* The record has a city and a state, under one spelling or the other.
HasPlace(e) ==
  /\ e.parish_city # "" \/ e.city # ""
  /\ e.parish_state # "" \/ e.state # ""

\* C17: in a run that has ended, every record with a city and a state has
\* had its resolver call return, whatever happened to the records before
\* it, and a resolver call is only ever started for a record that had none.
C17_EveryRecordTried ==
  /\ [](\A r \in 1..Len(runs) :
          runs[r].pc = "done" =>
            \A k \in 1..Len(runs[r].events) :
              HasPlace(runs[r].events[k]) => runs[r].res[k] \in {"ok", "nf"})
  /\ [][\A r \in 1..Len(runs) : \A k \in 1..Len(runs[r].events) :
          (runs'[r].res[k] = "pend" /\ runs[r].res[k] # "pend") =>
            runs[r].res[k] = "none"]_vars

\* C17 witness: a run has ended in which the first record was not
\* resolved and the two after it were.
C17_Witness ==
  \E r \in 1..Len(runs) :
    /\ runs[r].pc = "done"
    /\ runs[r].events = <<e1, e2, e3>>
    /\ runs[r].res = <<"nf", "ok", "ok">>

\* C18: no annotated event, published or accumulated, carries a coordinate
\* that is not a finite number.
C18_CoordinatesFinite ==
  /\ AllFinite(markers)
  /\ \A r \in 1..Len(runs) : AllFinite(runs[r].acc)

\* C19: a record without city or without state gets no resolver call and
\* is in no accumulated or published list, and the run goes on after it.
C19_RecordWithoutPlaceSkipped ==
  /\ \A k \in 1..Len(markers) : HasPlace(markers[k])
  /\ \A r \in 1..Len(runs) :
       /\ \A k \in 1..Len(runs[r].acc) : HasPlace(runs[r].acc[k])
       /\ \A k \in 1..Len(runs[r].events) :
            ~HasPlace(runs[r].events[k]) =>
              /\ runs[r].res[k] \in {"none", "skip"}
              /\ k < runs[r].i => runs[r].res[k] = "skip"

\* C19 witness: of the list of a record without state and a record with
\* city and state, the first was skipped and the second is published.
C19_Witness ==
  /\ pubRun > 0
  /\ runs[pubRun].events = <<e5, e4>>
  /\ runs[pubRun].res = <<"skip", "ok">>
  /\ Len(markers) = 1
  /\ markers[1].id = 4

\* a || b of two strings.
OrElse(a, b) == IF a # "" THEN a ELSE b

\* The annotated events of ms made from the record of identifier id.
OfId(ms, id) == { ms[k] : k \in {j \in 1..Len(ms) : ms[j].id = id} }

\* C20: each of address, city and state sent to the resolver is the
\* parish-scoped field when present and the generic field otherwise, so
\* that the record with both spellings is resolved to its parish and the
\* record with only the generic spelling is resolved too.
C20_ParishFieldPreferred ==
  \A r \in 1..Len(runs) :
    /\ runs[r].pc \in {"fetch1", "fetch2"} =>
         LET e == runs[r].events[runs[r].i]
             address == OrElse(e.parish_address, e.address)
             city == OrElse(e.parish_city, e.city)
             state == OrElse(e.parish_state, e.state)
         IN RunQuery(runs[r]) = IF runs[r].pc = "fetch1"
                                THEN <<address, city, state>>
                                ELSE <<city, state>>
    /\ \A m \in OfId(runs[r].acc, 3) :
         m.coordinates = [lat |-> Num(440000), lng |-> Num(-690000)]
    /\ \A m \in OfId(runs[r].acc, 2) :
         m.coordinates = [lat |-> Num(420000), lng |-> Num(-730000)]

\* C20 witness: the record with only the generic spelling and the record
\* with both spellings are published, the second at its parish.
C20_Witness ==
  /\ OfId(markers, 2) # {}
  /\ \E m \in OfId(markers, 3) :
       m.coordinates = [lat |-> Num(440000), lng |-> Num(-690000)]

\* C23: a geocodeAddress call with an empty address that returns a
\* coordinate has made the city and state lookup, and the coordinate is the
\* one of that lookup's first match.
C23_EmptyAddressUsesCityLookup ==
  (call.pc = "done" /\ call.address = "" /\ call.result # NULL) =>
    \E k \in 1..Len(call.log) :
      /\ call.log[k].query = <<call.city, call.state>>
      /\ Len(call.log[k].payload.data) > 0
      /\ call.result = [lat |-> parseFloat(call.log[k].payload.data[1].lat),
                        lng |-> parseFloat(call.log[k].payload.data[1].lon)]

Matched(p) == p.kind # "fault" /\ Len(p.data) > 0

\* C21: a change of the location hint and the lookups that follow leave
\* the published list and the busy flag as they are; the hint makes one
\* resolver call at most, none when it has no city; the view moves to the
\* coordinate of the match when a lookup matches and stays otherwise.
C21_HintOnlyRecentres ==
  [][/\ \A loc \in Locations :
          SetLocation(loc) =>
            /\ UNCHANGED <<markers, loading, mapCenter, mapZoom>>
            /\ hints'[Len(hints')].pc = IF loc.city = "" THEN "done" ELSE "fetch1"
     /\ \A h \in 1..Len(hints) :
          /\ hints[h].pc = "done" => hints'[h].pc = "done"
          /\ hints[h].pc = "fetch2" => hints'[h].pc # "fetch1"
          /\ \A p \in AllPayloads :
               HintFetchReturn(h, p) =>
                 /\ UNCHANGED <<markers, loading, runs>>
                 /\ Matched(p) =>
                      /\ hints'[h].pc = "done"
                      /\ mapCenter' = <<parseFloat(p.data[1].lat),
                                        parseFloat(p.data[1].lon)>>
                 /\ ~Matched(p) => UNCHANGED <<mapCenter, mapZoom>>]_vars

\* C21 witness: a hint has moved the view to Brooklyn while a run is in
\* progress, the list of an earlier run is shown and the busy flag is set.
C21_Witness ==
  /\ Len(hints) > 0
  /\ hints[1].pc = "done"
  /\ viewBy = -1
  /\ mapCenter = <<Num(406800), Num(-739400)>>
  /\ Len(markers) = 1
  /\ loading
  /\ \E r \in 1..Len(runs) : runs[r].pc # "done"

\* The viewport of a list of annotated events: the default when it is empty.
ViewOf(ms) ==
  IF Len(ms) = 0 THEN <<DefaultCenter, DefaultZoom>>
  ELSE <<CenterOf(ms), ZoomOf(ms)>>

\* C22: with one run and one hint, the one that completes last decides the
\* view: a run that completes after the hint leaves the view computed from
\* its list, a hint that finds its place after the run leaves the view on
\* that place.
C22_LastCompletedDecidesView ==
  [][(Len(runs) = 1 /\ Len(hints) = 1 /\ Len(runs') = 1 /\ Len(hints') = 1) =>
       /\ (hints[1].pc = "done" /\ Completes(1)) =>
            <<mapCenter', mapZoom'>> = ViewOf(runs'[1].acc)
       /\ (runs[1].pc = "done" /\ hints[1].pc # "done") =>
            \A p \in AllPayloads :
              (HintFetchReturn(1, p) /\ Matched(p)) =>
                mapCenter' = <<parseFloat(p.data[1].lat),
                               parseFloat(p.data[1].lon)>>]_vars

\* C27: while the busy flag is set, a run over a non-empty list has started
\* and not ended; the start of a run over an empty list and the steps of a
\* location hint leave the busy flag as it is.
C27_BusyOnlyWhileRunActive ==
  /\ [](loading =>
          \E r \in 1..Len(runs) :
            runs[r].pc # "done" /\ Len(runs[r].events) > 0)
  /\ [][/\ hints' # hints => loading' = loading
        /\ (Len(runs') > Len(runs) /\ Len(runs'[Len(runs')].events) = 0) =>
             loading' = loading]_vars

\* C27 witness: a run over an empty list has started and a hint has moved
\* the view while an older run is in progress, and the busy flag is set.
C27_Witness ==
  /\ loading
  /\ Len(runs) = 2
  /\ runs[1].pc # "done"
  /\ Len(runs[2].events) = 0
  /\ Len(hints) > 0
  /\ hints[1].pc = "done"
  /\ viewBy = -1

\* The letters a and b are the same but for their case (b lower case).
SameLetter(a, b) ==
  a = b \/ \E j \in 1..Len(UpperCase) : UpperCase[j] = a /\ LowerCase[j] = b

\* The tag contains the lower-case word kw, whatever the case of its letters.
ContainsWord(tag, kw) ==
  \E off \in 0..(Len(tag) - Len(kw)) :
    \A j \in 1..Len(kw) : SameLetter(tag[off + j], kw[j])

Keywords == {KwFood, KwPantry, KwTutor, KwTeach, KwCommunity}

\* C26: the class computed for a list of tags is one of the four classes,
\* and it is the default one exactly when no tag of the list contains one
\* of the five keywords, whatever the case of its letters; so it is for
\* every annotated event of a run.
C26_OneClassDefaultIffNoKeyword ==
  /\ cls.eventType \in
       {"food pantry", "tutoring", "community service", "default"}
  /\ cls.eventType = "default" <=>
       \A k \in 1..Len(cls.skills) :
         \A kw \in Keywords : ~ContainsWord(cls.skills[k], kw)

\* C26 witness: a list of two tags without keyword got the default class.
C26_Witness ==
  /\ cls.skills = << <<"D","r","i","v","e">>, <<"D","r","i","v","e">> >>
  /\ cls.eventType = "default"

\* The text is empty or made of spaces only.
Blank(s) == \A k \in 1..Len(s) : s[k] = " "

\* C28: at most one chat request is in flight; after the greeting the
\* transcript alternates user and assistant messages, one of each for every
\* accepted submit whose request has returned; a request starts only from
\* an input that is not blank while nothing is loading, and a submit with
\* a blank input or while loading changes nothing.
C28_OneRequestAtATime ==
  /\ [](/\ Len(chat.pending) <= 1
        /\ Len(chat.messages) = 1 + 2 * chat.sent - Len(chat.pending)
        /\ \A k \in 1..Len(chat.messages) :
             chat.messages[k].role = IF k % 2 = 0 THEN "user" ELSE "assistant")
  /\ [][/\ (sendMessage /\ (Blank(chat.input) \/ chat.loading)) =>
             UNCHANGED chat
        /\ Len(chat'.pending) > Len(chat.pending) =>
             /\ ~Blank(chat.input)
             /\ ~chat.loading
             /\ Len(chat'.messages) = Len(chat.messages) + 1
             /\ chat'.messages[Len(chat'.messages)].role = "user"]_vars

\* C28 witness: two submits were accepted and both requests have returned.
C28_Witness ==
  /\ chat.sent = 2
  /\ Len(chat.pending) = 0
  /\ Len(chat.messages) = 5

\* C29: when a chat request fails, the events and the location stay as they
\* are and the error message is appended; the loading flag is cleared when
\* a request returns, failed or not, and is clear when none is in flight.
C29_FailureLeavesMapInput ==
  /\ [](Len(chat.pending) = 0 => ~chat.loading)
  /\ [][\A k \in 1..Len(chat.pending) : \A resp \in Responses :
          PostReturn(k, resp) =>
            /\ ~chat'.loading
            /\ resp.kind # "ok" =>
                 /\ chat'.events = chat.events
                 /\ chat'.location = chat.location
                 /\ chat'.messages =
                      Append(chat.messages, Message("assistant", ErrorText))]_vars

\* C29 witness: the last request failed, after one that had set the events
\* and the location, and these are still set.
C29_Witness ==
  /\ chat.messages[Len(chat.messages)] = Message("assistant", ErrorText)
  /\ ~chat.loading
  /\ chat.events = <<e5, e4>>
  /\ chat.location # NULL

\* C30: a successful response replaces the events by its list when that is
\* not empty, by the empty list when its events field is null or empty, and
\* leaves them when the field is absent; it replaces the location only
\* when it carries one, and no step clears the location.
C30_EventsAndLocationAfterResponse ==
  [][/\ chat.location # NULL => chat'.location # NULL
     /\ \A k \in 1..Len(chat.pending) : \A resp \in Responses :
          (PostReturn(k, resp) /\ resp.kind = "ok") =>
            /\ chat'.events =
                 CASE resp.events.has = "absent" -> chat.events
                   [] resp.events.has = "null" -> <<>>
                   [] resp.events.has = "list" -> resp.events.list
            /\ chat'.location =
                 CASE resp.location.has = "value" -> resp.location.value
                   [] OTHER -> chat.location]_vars

\* C30 witness: after two successful responses the events are empty and
\* the location is one a response carried.
C30_Witness ==
  /\ chat.sent = 2
  /\ Len(chat.pending) = 0
  /\ chat.messages[3] = Message("assistant", Reply)
  /\ chat.messages[5] = Message("assistant", Reply)
  /\ chat.events = <<>>
  /\ chat.location # NULL

\* C25: the step in which the newest run ends, after at most one resolver
\* call for each of its records, publishes its list and the viewport of
\* that list, and clears the busy flag when the run had set it.
C25_NewestRunPublishesListAndView ==
  [][\A r \in 1..Len(runs') :
       (Completes(r) /\ r = Len(runs')) =>
         /\ Cardinality(Issued(runs'[r])) <= Len(runs'[r].events)
         /\ markers' = runs'[r].acc
         /\ Len(runs'[r].events) > 0 => ~loading'
         /\ <<mapCenter', mapZoom'>> = ViewOf(runs'[r].acc)]_vars

====
